---- MODULE Spec2Model ----
(***************************************************************************)
(* A model of json-rust's ordered map (src/src/object.rs) and of its JSON  *)
(* generator (src/src/codegen.rs).                                         *)
(*                                                                         *)
(* Text is a sequence of bytes (0..255).  An Object is the sequence of the *)
(* entries of its IndexMap, in iteration order.                            *)
(***************************************************************************)
EXTENDS Integers, Sequences, FiniteSets, TLC

VARIABLES
    inner,      \* Object.inner: the entries [key, value] in iteration order
    other,      \* a second Object, the right-hand side of ==
    pre,        \* inner as it was when the last call began
    op,         \* the last call: [name, key, value]
    ret,        \* what the last call returned
    gen,        \* the generator: its buffer or sink, dent, spaces_per_indent
    stdout,     \* the lines the process has written to standard output
    stderr      \* the lines the process has written to standard error

vars == <<inner, other, pre, op, ret, gen, stdout, stderr>>

(***************************************************************************)
(* Bounds of the model.                                                    *)
(***************************************************************************)
NumKeys == 3        \* distinct keys the callers use
MaxLen == 3         \* entries an Object holds at most
MaxOut == 1         \* lines written to each output stream at most
MaxStrLen == 3      \* bytes of a string of sample bytes at most
MaxDepth == 2       \* containers nested in a value tree at most
MaxWidth == 2       \* members of a container of a value tree at most
MaxFail == 12       \* the sink's write call that fails, at most
MaxCalls == 2       \* calls one after another on one generator at most

(***************************************************************************)
(* JsonValue (the generator dispatches on tag).                            *)
(***************************************************************************)
NoNum == [nan |-> FALSE, positive |-> TRUE, mantissa |-> 0, exponent |-> 0]

JNull == [tag |-> "Null", bool |-> FALSE, num |-> NoNum, str |-> <<>>,
          items |-> <<>>, entries |-> <<>>]

JBool(b) == [JNull EXCEPT !.tag = "Boolean", !.bool = b]

JNum(n) == [JNull EXCEPT !.tag = "Number",
              !.num = [nan |-> FALSE, positive |-> n >= 0,
                       mantissa |-> IF n >= 0 THEN n ELSE 0 - n, exponent |-> 0]]

JNaN == [JNull EXCEPT !.tag = "Number", !.num = [NoNum EXCEPT !.nan = TRUE]]

JShort(s) == [JNull EXCEPT !.tag = "Short", !.str = s]

JString(s) == [JNull EXCEPT !.tag = "String", !.str = s]

JArray(a) == [JNull EXCEPT !.tag = "Array", !.items = a]

JObject(o) == [JNull EXCEPT !.tag = "Object", !.entries = o]

\* static NULL: JsonValue = JsonValue::Null
NULL == JNull

\* No generator exists while the map's own operations are checked.
NoGenerator == [kind |-> "none"]

(***************************************************************************)
(* Option<T> and the other return values.                                  *)
(***************************************************************************)
None == [kind |-> "None", val |-> JNull, n |-> 0]

Some(v) == [kind |-> "Some", val |-> v, n |-> 0]

Unit == [kind |-> "unit", val |-> JNull, n |-> 0]

Ref(v) == [kind |-> "ref", val |-> v, n |-> 0]

Usize(k) == [kind |-> "usize", val |-> JNull, n |-> k]

Bool(b) == [kind |-> "bool", val |-> JNull, n |-> IF b THEN 1 ELSE 0]

(***************************************************************************)
(* IndexMap<String, JsonValue>, as Object uses it.                         *)
(***************************************************************************)
\* The position of key in the entries, 0 when it is absent.
get_index_of(m, key) ==
    IF \E i \in 1..Len(m) : m[i].key = key
    THEN CHOOSE i \in 1..Len(m) : m[i].key = key /\ \A j \in 1..(i - 1) : m[j].key # key
    ELSE 0

\* Object::new / Object::with_capacity
new == <<>>

with_capacity(capacity) == <<>>

\* A plausible slip: insert always appends.
insert_append(m, key, value) == Append(m, [key |-> key, value |-> value])

\* A plausible slip: an overwritten key moves to the end.
insert_move_to_end(m, key, value) ==
    Append(SelectSeq(m, LAMBDA e : e.key # key), [key |-> key, value |-> value])

\* Object::insert: IndexMap::insert replaces in place or appends.
insert(m, key, value) ==
    LET i == get_index_of(m, key) IN
    IF i # 0 THEN [m EXCEPT ![i].value = value]
    ELSE Append(m, [key |-> key, value |-> value])

\* Object::get / Object::get_mut
get(m, key) ==
    LET i == get_index_of(m, key) IN
    IF i = 0 THEN None ELSE Some(m[i].value)

get_mut(m, key) == get(m, key)

\* The entries without position i, the rest shifted down.
RemoveAt(m, i) == [j \in 1..(Len(m) - 1) |-> IF j < i THEN m[j] ELSE m[j + 1]]

\* The entries with position i taken by the last one (swap_remove).
SwapRemoveAt(m, i) ==
    [j \in 1..(Len(m) - 1) |-> IF j = i THEN m[Len(m)] ELSE m[j]]

\* A plausible slip: remove keeps the order.
remove_shifting(m, key) ==
    LET i == get_index_of(m, key) IN
    IF i = 0 THEN [inner |-> m, ret |-> None]
    ELSE [inner |-> RemoveAt(m, i), ret |-> Some(m[i].value)]

\* Object::remove: IndexMap::remove is swap_remove.
remove(m, key) ==
    LET i == get_index_of(m, key) IN
    IF i = 0 THEN [inner |-> m, ret |-> None]
    ELSE [inner |-> SwapRemoveAt(m, i), ret |-> Some(m[i].value)]

\* A plausible slip: shift_remove swaps.
shift_remove_swapping(m, key) ==
    LET i == get_index_of(m, key) IN
    IF i = 0
    THEN [inner |-> m, ret |-> None,
          out |-> <<"inner shift remove called">>, err |-> <<"[src/object.rs:156]">>]
    ELSE [inner |-> SwapRemoveAt(m, i), ret |-> Some(m[i].value),
          out |-> <<"inner shift remove called">>, err |-> <<"[src/object.rs:156]">>]

\* Object::shift_remove: println!, dbg!(), then IndexMap::shift_remove.
shift_remove(m, key) ==
    LET i == get_index_of(m, key) IN
    IF i = 0
    THEN [inner |-> m, ret |-> None,
          out |-> <<"inner shift remove called">>, err |-> <<"[src/object.rs:156]">>]
    ELSE [inner |-> RemoveAt(m, i), ret |-> Some(m[i].value),
          out |-> <<"inner shift remove called">>, err |-> <<"[src/object.rs:156]">>]

\* Object::len / is_empty / clear / iter
len(m) == Len(m)

is_empty(m) == len(m) = 0

clear(m) == <<>>

iter(m) == m

\* impl Index<&str> for Object
index(m, key) ==
    LET r == get(m, key) IN
    IF r.kind = "Some" THEN Ref(r.val) ELSE Ref(NULL)

\* A plausible slip: index_mut inserts null even when the key is there.
index_mut_always_insert(m, key) ==
    LET m1 == insert(m, key, JNull) IN
    [inner |-> m1, at |-> get_index_of(m1, key)]

\* impl IndexMut<&str> for Object: the map afterwards and the slot handed out.
index_mut(m, key) ==
    LET m1 == IF get(m, key).kind = "None" THEN insert(m, key, JNull) ELSE m IN
    [inner |-> m1, at |-> get_index_of(m1, key)]

(***************************************************************************)
(* Equality.                                                               *)
(***************************************************************************)
RECURSIVE value_eq(_, _)
RECURSIVE eq(_, _)

\* A plausible slip: == compares the entries position by position.
eq_ordered(self, o) ==
    /\ len(self) = len(o)
    /\ \A i \in 1..Len(self) :
          self[i].key = o[i].key /\ value_eq(self[i].value, o[i].value)

\* impl PartialEq for Object
eq(self, o) ==
    IF len(self) # len(o) THEN FALSE
    ELSE \A i \in 1..Len(iter(self)) :
            LET r == get(o, iter(self)[i].key) IN
            IF r.kind = "Some" THEN value_eq(r.val, iter(self)[i].value) ELSE FALSE

\* JsonValue's ==: by variant, the two string variants compared by content.
value_eq(a, b) ==
    LET isStr(v) == v.tag \in {"Short", "String"} IN
    CASE isStr(a) /\ isStr(b) -> a.str = b.str
      [] a.tag # b.tag -> FALSE
      [] a.tag = "Null" -> TRUE
      [] a.tag = "Boolean" -> a.bool = b.bool
      [] a.tag = "Number" -> a.num = b.num
      [] a.tag = "Array" ->
            /\ Len(a.items) = Len(b.items)
            /\ \A i \in 1..Len(a.items) : value_eq(a.items[i], b.items[i])
      [] a.tag = "Object" -> eq(a.entries, b.entries)

(***************************************************************************)
(* The callers' inputs.                                                    *)
(***************************************************************************)
Key(i) == <<96 + i>>

Keys == {Key(i) : i \in 1..NumKeys}

Values == {JNull, JNum(1)}

(***************************************************************************)
(* The operations of an Object, one action each.                           *)
(***************************************************************************)
Call(name, key, value) == [name |-> name, key |-> key, value |-> value]

ObjInit ==
    /\ inner \in {new} \cup {with_capacity(n) : n \in 0..MaxLen}
    /\ other = new
    /\ pre = <<>>
    /\ op = Call("new", <<>>, JNull)
    /\ ret = Unit
    /\ gen = NoGenerator
    /\ stdout = <<>>
    /\ stderr = <<>>

Insert ==
    \E k \in Keys, v \in Values :
        /\ get_index_of(inner, k) # 0 \/ Len(inner) < MaxLen
        /\ inner' = insert(inner, k, v)
        /\ pre' = inner
        /\ op' = Call("insert", k, v)
        /\ ret' = Unit
        /\ UNCHANGED <<other, gen, stdout, stderr>>

Get ==
    \E k \in Keys :
        /\ ret' = get(inner, k)
        /\ pre' = inner
        /\ op' = Call("get", k, JNull)
        /\ UNCHANGED <<inner, other, gen, stdout, stderr>>

\* get_mut, and the caller's write through the handle it returns.
GetMut ==
    \E k \in Keys, v \in Values :
        /\ ret' = get_mut(inner, k)
        /\ inner' = IF get_mut(inner, k).kind = "Some"
                    THEN [inner EXCEPT ![get_index_of(inner, k)].value = v]
                    ELSE inner
        /\ pre' = inner
        /\ op' = Call("get_mut", k, v)
        /\ UNCHANGED <<other, gen, stdout, stderr>>

Remove ==
    \E k \in Keys :
        /\ inner' = remove(inner, k).inner
        /\ ret' = remove(inner, k).ret
        /\ pre' = inner
        /\ op' = Call("remove", k, JNull)
        /\ UNCHANGED <<other, gen, stdout, stderr>>

ShiftRemove ==
    \E k \in Keys :
        /\ Len(stdout) < MaxOut
        /\ inner' = shift_remove(inner, k).inner
        /\ ret' = shift_remove(inner, k).ret
        /\ stdout' = stdout \o shift_remove(inner, k).out
        /\ stderr' = stderr \o shift_remove(inner, k).err
        /\ pre' = inner
        /\ op' = Call("shift_remove", k, JNull)
        /\ UNCHANGED <<other, gen>>

LenCall ==
    /\ ret' = Usize(len(inner))
    /\ pre' = inner
    /\ op' = Call("len", <<>>, JNull)
    /\ UNCHANGED <<inner, other, gen, stdout, stderr>>

IsEmpty ==
    /\ ret' = Bool(is_empty(inner))
    /\ pre' = inner
    /\ op' = Call("is_empty", <<>>, JNull)
    /\ UNCHANGED <<inner, other, gen, stdout, stderr>>

Clear ==
    /\ inner' = clear(inner)
    /\ ret' = Unit
    /\ pre' = inner
    /\ op' = Call("clear", <<>>, JNull)
    /\ UNCHANGED <<other, gen, stdout, stderr>>

\* object[k], read.
Index ==
    \E k \in Keys :
        /\ ret' = index(inner, k)
        /\ pre' = inner
        /\ op' = Call("index", k, JNull)
        /\ UNCHANGED <<inner, other, gen, stdout, stderr>>

\* &mut object[k], the handle taken and not written through.
IndexMut ==
    \E k \in Keys :
        /\ get_index_of(inner, k) # 0 \/ Len(inner) < MaxLen
        /\ inner' = index_mut(inner, k).inner
        /\ ret' = Ref(index_mut(inner, k).inner[index_mut(inner, k).at].value)
        /\ pre' = inner
        /\ op' = Call("index_mut", k, JNull)
        /\ UNCHANGED <<other, gen, stdout, stderr>>

\* object[k] = v
IndexAssign ==
    \E k \in Keys, v \in Values :
        /\ get_index_of(inner, k) # 0 \/ Len(inner) < MaxLen
        /\ inner' = [index_mut(inner, k).inner EXCEPT ![index_mut(inner, k).at] =
                        [key |-> @.key, value |-> v]]
        /\ ret' = Unit
        /\ pre' = inner
        /\ op' = Call("index_assign", k, v)
        /\ UNCHANGED <<other, gen, stdout, stderr>>

ObjNext ==
    \/ Insert
    \/ Get
    \/ GetMut
    \/ Remove
    \/ ShiftRemove
    \/ LenCall
    \/ IsEmpty
    \/ Clear
    \/ Index
    \/ IndexMut
    \/ IndexAssign

SpecObj == ObjInit /\ [][ObjNext]_vars

(***************************************************************************)
(* == on two Objects: the operands are Objects that insert and remove      *)
(* build, and the action applies eq to them.                               *)
(***************************************************************************)
RECURSIVE Built(_)
\* The Objects that at most n calls of insert and remove build from new().
Built(n) ==
    IF n = 0 THEN {new}
    ELSE LET S == Built(n - 1) IN
         S \cup {insert(m, k, v) : m \in {x \in S : Len(x) < MaxLen}, k \in Keys, v \in Values}
           \cup {remove(m, k).inner : m \in S, k \in Keys}

EqObjects == Built(MaxLen + 1)

EqInit ==
    /\ inner \in EqObjects
    /\ other \in EqObjects
    /\ pre = <<>>
    /\ op = Call("new", <<>>, JNull)
    /\ ret = Unit
    /\ gen = NoGenerator
    /\ stdout = <<>>
    /\ stderr = <<>>

\* inner == other
Compare ==
    /\ op.name = "new"
    /\ ret' = Bool(eq(inner, other))
    /\ op' = Call("eq", <<>>, JNull)
    /\ UNCHANGED <<inner, other, pre, gen, stdout, stderr>>

\* other == inner
CompareRev ==
    /\ op.name = "new"
    /\ ret' = Bool(eq(other, inner))
    /\ op' = Call("eq_rev", <<>>, JNull)
    /\ UNCHANGED <<inner, other, pre, gen, stdout, stderr>>

EqNext ==
    \/ Compare
    \/ CompareRev

SpecEq == EqInit /\ [][EqNext]_vars

(***************************************************************************)
(* codegen.rs: the escape table.                                           *)
(***************************************************************************)
QU == 34    \* b'"'
BS == 92    \* b'\\'
BB == 98    \* b'b'
TT == 116   \* b't'
NN == 110   \* b'n'
FF == 102   \* b'f'
RR == 114   \* b'r'
UU == 117   \* b'u'
ZZ == 0     \* `__` in the source: no escape

\* static ESCAPED: [u8; 256]; the entry of byte b is ESCAPED[b + 1].
ESCAPED == <<
\* 0   1   2   3   4   5   6   7   8   9   A   B   C   D   E   F
  UU, UU, UU, UU, UU, UU, UU, UU, BB, TT, NN, UU, FF, RR, UU, UU, \* 0
  UU, UU, UU, UU, UU, UU, UU, UU, UU, UU, UU, UU, UU, UU, UU, UU, \* 1
  ZZ, ZZ, QU, ZZ, ZZ, ZZ, ZZ, ZZ, ZZ, ZZ, ZZ, ZZ, ZZ, ZZ, ZZ, ZZ, \* 2
  ZZ, ZZ, ZZ, ZZ, ZZ, ZZ, ZZ, ZZ, ZZ, ZZ, ZZ, ZZ, ZZ, ZZ, ZZ, ZZ, \* 3
  ZZ, ZZ, ZZ, ZZ, ZZ, ZZ, ZZ, ZZ, ZZ, ZZ, ZZ, ZZ, ZZ, ZZ, ZZ, ZZ, \* 4
  ZZ, ZZ, ZZ, ZZ, ZZ, ZZ, ZZ, ZZ, ZZ, ZZ, ZZ, ZZ, BS, ZZ, ZZ, ZZ, \* 5
  ZZ, ZZ, ZZ, ZZ, ZZ, ZZ, ZZ, ZZ, ZZ, ZZ, ZZ, ZZ, ZZ, ZZ, ZZ, ZZ, \* 6
  ZZ, ZZ, ZZ, ZZ, ZZ, ZZ, ZZ, ZZ, ZZ, ZZ, ZZ, ZZ, ZZ, ZZ, ZZ, ZZ, \* 7
  ZZ, ZZ, ZZ, ZZ, ZZ, ZZ, ZZ, ZZ, ZZ, ZZ, ZZ, ZZ, ZZ, ZZ, ZZ, ZZ, \* 8
  ZZ, ZZ, ZZ, ZZ, ZZ, ZZ, ZZ, ZZ, ZZ, ZZ, ZZ, ZZ, ZZ, ZZ, ZZ, ZZ, \* 9
  ZZ, ZZ, ZZ, ZZ, ZZ, ZZ, ZZ, ZZ, ZZ, ZZ, ZZ, ZZ, ZZ, ZZ, ZZ, ZZ, \* A
  ZZ, ZZ, ZZ, ZZ, ZZ, ZZ, ZZ, ZZ, ZZ, ZZ, ZZ, ZZ, ZZ, ZZ, ZZ, ZZ, \* B
  ZZ, ZZ, ZZ, ZZ, ZZ, ZZ, ZZ, ZZ, ZZ, ZZ, ZZ, ZZ, ZZ, ZZ, ZZ, ZZ, \* C
  ZZ, ZZ, ZZ, ZZ, ZZ, ZZ, ZZ, ZZ, ZZ, ZZ, ZZ, ZZ, ZZ, ZZ, ZZ, ZZ, \* D
  ZZ, ZZ, ZZ, ZZ, ZZ, ZZ, ZZ, ZZ, ZZ, ZZ, ZZ, ZZ, ZZ, ZZ, ZZ, ZZ, \* E
  ZZ, ZZ, ZZ, ZZ, ZZ, ZZ, ZZ, ZZ, ZZ, ZZ, ZZ, ZZ, ZZ, ZZ, ZZ, ZZ  \* F
>>

(***************************************************************************)
(* codegen.rs: the four generators.                                        *)
(*                                                                         *)
(* A generator g holds                                                     *)
(*   kind               which of the four impls of Generator it is         *)
(*   code               the owned Vec<u8> (DumpGenerator, PrettyGenerator) *)
(*   sink               the borrowed writer W (the two writer generators): *)
(*                      the bytes it accepted, the write calls it got, and *)
(*                      the call at which it fails (0: never) after        *)
(*                      accepting `part` bytes of that call's slice        *)
(*   dent, spaces_per_indent   u16, the pretty generators'                 *)
(*   res, error         the io::Result of the last call: "Ok", or "Err"    *)
(*                      with the sink's error (named by the write call it  *)
(*                      arose in), or "Panic" once the thread unwinds      *)
(*   overflow_checks    whether the build checks integer overflow          *)
(***************************************************************************)
U16 == 65536    \* dent and spaces_per_indent are u16

NoSink == [bytes |-> <<>>, writes |-> 0, fail_at |-> 0, part |-> 0]

Sink(fail_at, part) == [bytes |-> <<>>, writes |-> 0, fail_at |-> fail_at, part |-> part]

\* DumpGenerator::new
DumpGenerator_new(checks) ==
    [kind |-> "Dump", code |-> <<>>, sink |-> NoSink, dent |-> 0,
     spaces_per_indent |-> 0, res |-> "Ok", error |-> 0, overflow_checks |-> checks]

\* PrettyGenerator::new
PrettyGenerator_new(spaces, checks) ==
    [kind |-> "Pretty", code |-> <<>>, sink |-> NoSink, dent |-> 0,
     spaces_per_indent |-> spaces, res |-> "Ok", error |-> 0, overflow_checks |-> checks]

\* WriterGenerator::new
WriterGenerator_new(writer, checks) ==
    [kind |-> "Writer", code |-> <<>>, sink |-> writer, dent |-> 0,
     spaces_per_indent |-> 0, res |-> "Ok", error |-> 0, overflow_checks |-> checks]

\* PrettyWriterGenerator::new
PrettyWriterGenerator_new(writer, spaces, checks) ==
    [kind |-> "PrettyWriter", code |-> <<>>, sink |-> writer, dent |-> 0,
     spaces_per_indent |-> spaces, res |-> "Ok", error |-> 0, overflow_checks |-> checks]

Owned(g) == g.kind \in {"Dump", "Pretty"}

IsPretty(g) == g.kind \in {"Pretty", "PrettyWriter"}

\* The bytes the generator has put out: its buffer, or what its sink accepted.
Output(g) == IF Owned(g) THEN g.code ELSE g.sink.bytes

Min(a, b) == IF a <= b THEN a ELSE b

\* bytes[a .. b], positions counted from 0
Slice(bytes, a, b) == SubSeq(bytes, a + 1, b)

\* n copies of ch
Repeat(ch, n) == [i \in 1..n |-> ch]

\* extend_from_slice(dst, src)
extend_from_slice(dst, src) == dst \o src

\* Write::write_all on the sink: an empty slice reaches no write call; the
\* failing call accepts at most `part` bytes, and never the whole slice.
write_all(g, slice) ==
    LET n == g.sink.writes + 1 IN
    IF Len(slice) = 0 THEN [g EXCEPT !.res = "Ok", !.error = 0]
    ELSE IF g.sink.fail_at = n
    THEN [g EXCEPT !.sink.writes = n,
                   !.sink.bytes = @ \o SubSeq(slice, 1, Min(g.sink.part, Len(slice) - 1)),
                   !.res = "Err", !.error = n]
    ELSE [g EXCEPT !.sink.writes = n, !.sink.bytes = @ \o slice,
                   !.res = "Ok", !.error = 0]

\* get_writer().write_all(slice): Vec<u8>'s Write never fails.
get_writer_write_all(g, slice) ==
    IF g.res = "Panic" THEN g
    ELSE IF Owned(g) THEN [g EXCEPT !.code = @ \o slice, !.res = "Ok", !.error = 0]
    ELSE write_all(g, slice)

\* Generator::write, and its overrides in DumpGenerator and PrettyGenerator
write(g, slice) ==
    IF g.res = "Panic" THEN g
    ELSE IF Owned(g)
    THEN [g EXCEPT !.code = extend_from_slice(@, slice), !.res = "Ok", !.error = 0]
    ELSE write_all(g, slice)

\* Generator::write_char, and its overrides (code.push)
write_char(g, ch) ==
    IF g.res = "Panic" THEN g
    ELSE IF Owned(g)
    THEN [g EXCEPT !.code = Append(@, ch), !.res = "Ok", !.error = 0]
    ELSE write_all(g, <<ch>>)

\* write_min of the four generators
write_min(g, slice, min) ==
    IF g.res = "Panic" THEN g
    ELSE CASE g.kind = "Dump" ->
                [g EXCEPT !.code = Append(@, min), !.res = "Ok", !.error = 0]
           [] g.kind = "Pretty" ->
                [g EXCEPT !.code = extend_from_slice(@, slice), !.res = "Ok", !.error = 0]
           [] g.kind = "Writer" -> write_all(g, <<min>>)
           [] g.kind = "PrettyWriter" -> write_all(g, slice)

\* try!(call); rest: an Err of the call (or its panic) is what the function
\* returns, and nothing of rest happens; otherwise rest goes on from the
\* generator the call left.
try(call, rest(_)) ==
    CHOOSE r \in {IF g.res # "Ok" THEN g ELSE rest(g) : g \in {call}} : TRUE

\* call; rest: a call whose result is not looked at, and what follows it.
step(call, rest(_)) == CHOOSE r \in {rest(g) : g \in {call}} : TRUE

\* The loop `for _ in 0..n { try!(self.write_char(b' ')) }` of
\* PrettyWriterGenerator::new_line: n writes of one byte, or those up to the
\* sink's failing one.
write_spaces(g, n) ==
    LET left == g.sink.fail_at - g.sink.writes IN
    IF n = 0 THEN g
    ELSE IF left >= 1 /\ left <= n
    THEN [g EXCEPT !.sink.writes = g.sink.fail_at,
                   !.sink.bytes = @ \o Repeat(32, left - 1),
                   !.res = "Err", !.error = g.sink.fail_at]
    ELSE [g EXCEPT !.sink.writes = @ + n, !.sink.bytes = @ \o Repeat(32, n),
                   !.res = "Ok", !.error = 0]

\* new_line: Ok(()) by default; the pretty generators write '\n' and then
\* dent * spaces_per_indent spaces, the product computed in u16.
new_line(g) ==
    LET n == g.dent * g.spaces_per_indent IN
    IF g.res = "Panic" THEN g
    ELSE CASE g.kind \in {"Dump", "Writer"} -> [g EXCEPT !.res = "Ok", !.error = 0]
           [] g.kind = "Pretty" ->
                IF n >= U16 /\ g.overflow_checks
                THEN [g EXCEPT !.code = Append(@, 10), !.res = "Panic"]
                ELSE [g EXCEPT !.code = Append(@, 10) \o Repeat(32, n % U16),
                               !.res = "Ok", !.error = 0]
           [] g.kind = "PrettyWriter" ->
                try(write_char(g, 10), LAMBDA g1 :
                IF n >= U16 /\ g.overflow_checks THEN [g1 EXCEPT !.res = "Panic"]
                ELSE write_spaces(g1, n % U16))

\* indent: nothing by default; self.dent += 1 in the pretty generators
indent(g) ==
    IF g.res = "Panic" \/ ~IsPretty(g) THEN g
    ELSE IF g.dent + 1 >= U16 /\ g.overflow_checks THEN [g EXCEPT !.res = "Panic"]
    ELSE [g EXCEPT !.dent = (g.dent + 1) % U16]

\* dedent: nothing by default; self.dent -= 1 in the pretty generators
dedent(g) ==
    IF g.res = "Panic" \/ ~IsPretty(g) THEN g
    ELSE IF g.dent = 0 /\ g.overflow_checks THEN [g EXCEPT !.res = "Panic"]
    ELSE [g EXCEPT !.dent = (g.dent - 1) % U16]

(***************************************************************************)
(* codegen.rs: strings.                                                    *)
(***************************************************************************)
HexChar(d) == IF d < 10 THEN 48 + d ELSE 87 + d

\* The digits of ch as {:x} writes them, without padding.
LowerHex(ch) ==
    IF ch < 16 THEN <<HexChar(ch)>> ELSE <<HexChar(ch \div 16), HexChar(ch % 16)>>

RECURSIVE zero_pad(_, _)
\* The padding of {:04x}: k writes of '0', stopping at the first that fails.
zero_pad(g, k) ==
    IF k <= 0 THEN g
    ELSE try(get_writer_write_all(g, <<48>>), LAMBDA g1 : zero_pad(g1, k - 1))

\* write!(self.get_writer(), "{:04x}", ch)
fmt_04x(g, ch) ==
    try(zero_pad(g, 4 - Len(LowerHex(ch))), LAMBDA g1 :
    get_writer_write_all(g1, LowerHex(ch)))

RECURSIVE complex_loop(_, _, _, _)
\* The for loop of write_string_complex at position at (counted from 0),
\* and what follows the loop.
complex_loop(g, bytes, start, at) ==
    IF at >= Len(bytes)
    THEN try(write(g, Slice(bytes, start, Len(bytes))), LAMBDA g1 :
         write_char(g1, 34))
    ELSE LET ch == bytes[at + 1]
             escape == ESCAPED[ch + 1]
         IN  IF escape > 0
             THEN try(write(g, Slice(bytes, start, at)), LAMBDA g1 :
                  try(write(g1, <<BS, escape>>), LAMBDA g2 :
                  IF escape = UU
                  THEN try(fmt_04x(g2, ch), LAMBDA g3 :
                       complex_loop(g3, bytes, at + 1, at + 1))
                  ELSE complex_loop(g2, bytes, at + 1, at + 1)))
             ELSE complex_loop(g, bytes, start, at + 1)

\* A plausible slip: the escaping pass opens the string a second time.
write_string_complex_requote(g, string, start) ==
    try(write_char(g, 34), LAMBDA g0 :
    try(write(g0, Slice(string, 0, start)), LAMBDA g1 :
    complex_loop(g1, string, start, start)))

\* Generator::write_string_complex
write_string_complex(g, string, start) ==
    try(write(g, Slice(string, 0, start)), LAMBDA g1 :
    complex_loop(g1, string, start, start))

\* Generator::write_string
write_string(g, string) ==
    LET hit == {i \in 1..Len(string) : ESCAPED[string[i] + 1] > 0}
        first == CHOOSE i \in hit : \A j \in hit : i <= j
    IN  try(write_char(g, 34), LAMBDA g1 :
        IF hit # {} THEN write_string_complex(g1, string, first - 1)
        ELSE try(write(g1, string), LAMBDA g2 : write_char(g2, 34)))

(***************************************************************************)
(* codegen.rs: numbers, objects, arrays, values.                           *)
(***************************************************************************)
RECURSIVE Decimal(_)
\* The decimal digits of n.
Decimal(n) == IF n < 10 THEN <<48 + n>> ELSE Append(Decimal(n \div 10), 48 + (n % 10))

\* util::print_dec::write(writer, positive, mantissa, exponent), for the
\* numbers of the model (exponent 0): the sign and the digits, in one write.
print_dec_write(g, positive, mantissa, exponent) ==
    get_writer_write_all(g, (IF positive THEN <<>> ELSE <<45>>) \o Decimal(mantissa))

\* Generator::write_number
write_number(g, num) ==
    IF num.nan THEN write(g, <<110, 117, 108, 108>>)
    ELSE print_dec_write(g, num.positive, num.mantissa, num.exponent)

RECURSIVE write_json(_, _)
RECURSIVE write_object(_, _)
RECURSIVE object_rest(_, _, _)
RECURSIVE array_rest(_, _, _)

\* A plausible slip: the entries after the first are not written.
object_rest_skipped(g, it, i) ==
    step(dedent(g), LAMBDA g1 :
    try(new_line(g1), LAMBDA g2 :
    write_char(g2, 125)))

\* write_object from its second loop on: `for (key, value) in iter` at entry
\* i, then dedent, new_line and '}'.
object_rest(g, it, i) ==
    IF i > Len(it)
    THEN step(dedent(g), LAMBDA g1 :
         try(new_line(g1), LAMBDA g2 :
         write_char(g2, 125)))
    ELSE try(write_char(g, 44), LAMBDA g1 :
         try(new_line(g1), LAMBDA g2 :
         try(write_string(g2, it[i].key), LAMBDA g3 :
         try(write_min(g3, <<58, 32>>, 58), LAMBDA g4 :
         try(write_json(g4, it[i].value), LAMBDA g5 :
         object_rest(g5, it, i + 1))))))

\* A plausible slip: the write of '{' is not checked.
write_object_unchecked(g, object) ==
    step(write_char(g, 123), LAMBDA g1 :
    IF Len(iter(object)) = 0 THEN write_char(g1, 125)
    ELSE step(indent(g1), LAMBDA g2 :
         try(new_line(g2), LAMBDA g3 :
         try(write_string(g3, iter(object)[1].key), LAMBDA g4 :
         try(write_min(g4, <<58, 32>>, 58), LAMBDA g5 :
         try(write_json(g5, iter(object)[1].value), LAMBDA g6 :
         object_rest(g6, iter(object), 2)))))))

\* Generator::write_object
write_object(g, object) ==
    try(write_char(g, 123), LAMBDA g1 :
    IF Len(iter(object)) = 0 THEN write_char(g1, 125)
    ELSE step(indent(g1), LAMBDA g2 :
         try(new_line(g2), LAMBDA g3 :
         try(write_string(g3, iter(object)[1].key), LAMBDA g4 :
         try(write_min(g4, <<58, 32>>, 58), LAMBDA g5 :
         try(write_json(g5, iter(object)[1].value), LAMBDA g6 :
         object_rest(g6, iter(object), 2)))))))

\* The Array arm of write_json from its second loop on: `for item in iter` at
\* item i, then dedent, new_line and ']'.
array_rest(g, array, i) ==
    IF i > Len(array)
    THEN step(dedent(g), LAMBDA g1 :
         try(new_line(g1), LAMBDA g2 :
         write_char(g2, 93)))
    ELSE try(write_char(g, 44), LAMBDA g1 :
         try(new_line(g1), LAMBDA g2 :
         try(write_json(g2, array[i]), LAMBDA g3 :
         array_rest(g3, array, i + 1))))

\* Generator::write_json
write_json(g, json) ==
    CASE json.tag = "Null" -> write(g, <<110, 117, 108, 108>>)
      [] json.tag = "Short" -> write_string(g, json.str)
      [] json.tag = "String" -> write_string(g, json.str)
      [] json.tag = "Number" -> write_number(g, json.num)
      [] json.tag = "Boolean" /\ json.bool -> write(g, <<116, 114, 117, 101>>)
      [] json.tag = "Boolean" /\ ~json.bool -> write(g, <<102, 97, 108, 115, 101>>)
      [] json.tag = "Array" ->
            try(write_char(g, 91), LAMBDA g1 :
            IF Len(json.items) = 0 THEN write_char(g1, 93)
            ELSE step(indent(g1), LAMBDA g2 :
                 try(new_line(g2), LAMBDA g3 :
                 try(write_json(g3, json.items[1]), LAMBDA g4 :
                 array_rest(g4, json.items, 2)))))
      [] json.tag = "Object" -> write_object(g, json.entries)

\* DumpGenerator::consume / PrettyGenerator::consume
consume(g) == g.code

\* .expect("Can't fail") and consume(): the text, or the panic.
expect_consume(g) ==
    [kind |-> IF g.res = "Ok" THEN "String" ELSE "Panic", val |-> JString(consume(g)), n |-> 0]

\* Object::dump: write_object(self).expect("Can't fail"), then consume.
dump(object) ==
    step(write_object(DumpGenerator_new(FALSE), object), LAMBDA g : expect_consume(g))

\* Object::pretty
pretty(object, spaces, checks) ==
    step(write_object(PrettyGenerator_new(spaces, checks), object), LAMBDA g :
    expect_consume(g))

(***************************************************************************)
(* write_string on each of the four generators.                            *)
(***************************************************************************)
\* One byte of each class of the table, and of each kind of plain byte.
SampleBytes == {1, 8, 10, 31, 34, 92, 97, 127, 195}

\* Every one-byte string, and the strings of sample bytes up to MaxStrLen.
Strings ==
    {<<b>> : b \in 0..255} \cup UNION {[1..n -> SampleBytes] : n \in 0..MaxStrLen}

\* The io::Result a generator's last call returned.
IoResult(g) == [kind |-> g.res, val |-> JNull, n |-> g.error]

StrInit ==
    /\ gen \in {DumpGenerator_new(FALSE), PrettyGenerator_new(2, FALSE),
                WriterGenerator_new(Sink(0, 0), FALSE),
                PrettyWriterGenerator_new(Sink(0, 0), 2, FALSE)}
    /\ inner = new
    /\ other = new
    /\ pre = <<>>
    /\ op = Call("new", <<>>, JNull)
    /\ ret = Unit
    /\ stdout = <<>>
    /\ stderr = <<>>

WriteString ==
    \E s \in Strings :
        /\ op.name = "new"
        /\ LET g == write_string(gen, s) IN gen' = g /\ ret' = IoResult(g)
        /\ op' = Call("write_string", s, JNull)
        /\ UNCHANGED <<inner, other, pre, stdout, stderr>>

StrNext == WriteString

SpecStr == StrInit /\ [][StrNext]_vars

(***************************************************************************)
(* json::parse (the parser is not among the sources: JSON's grammar).      *)
(***************************************************************************)
Fail == [ok |-> FALSE, val |-> JNull, next |-> 0]

Done(v, n) == [ok |-> TRUE, val |-> v, next |-> n]

At(b, i) == IF i >= 1 /\ i <= Len(b) THEN b[i] ELSE 0 - 1

IsDigit(c) == c >= 48 /\ c <= 57

HexVal(c) ==
    CASE c >= 48 /\ c <= 57 -> c - 48
      [] c >= 97 /\ c <= 102 -> c - 87
      [] c >= 65 /\ c <= 70 -> c - 55
      [] OTHER -> 0 - 1

\* The UTF-8 bytes of a code point of the basic plane.
Utf8(cp) ==
    CASE cp < 128 -> <<cp>>
      [] cp >= 128 /\ cp < 2048 -> <<192 + (cp \div 64), 128 + (cp % 64)>>
      [] OTHER -> <<224 + (cp \div 4096), 128 + ((cp \div 64) % 64), 128 + (cp % 64)>>

RECURSIVE skip_ws(_, _)
skip_ws(b, i) == IF At(b, i) \in {32, 9, 10, 13} THEN skip_ws(b, i + 1) ELSE i

RECURSIVE parse_digits(_, _, _)
parse_digits(b, i, acc) ==
    IF IsDigit(At(b, i)) THEN parse_digits(b, i + 1, acc * 10 + (At(b, i) - 48))
    ELSE [val |-> acc, next |-> i]

parse_number(b, i) ==
    LET neg == At(b, i) = 45
        j == IF neg THEN i + 1 ELSE i
        d == parse_digits(b, j, 0)
    IN  IF ~IsDigit(At(b, j)) THEN Fail
        ELSE Done(JNum(IF neg THEN 0 - d.val ELSE d.val), d.next)

RECURSIVE parse_string(_, _, _)
\* The string whose opening quote ends before position i.
parse_string(b, i, acc) ==
    LET c == At(b, i)
        e == At(b, i + 1)
        h == [k \in 1..4 |-> HexVal(At(b, i + 1 + k))]
    IN  CASE c = 0 - 1 -> Fail
          [] c = 34 -> Done(JShort(acc), i + 1)
          [] c = 92 ->
                CASE e \in {34, 92, 47} -> parse_string(b, i + 2, Append(acc, e))
                  [] e = 98 -> parse_string(b, i + 2, Append(acc, 8))
                  [] e = 102 -> parse_string(b, i + 2, Append(acc, 12))
                  [] e = 110 -> parse_string(b, i + 2, Append(acc, 10))
                  [] e = 114 -> parse_string(b, i + 2, Append(acc, 13))
                  [] e = 116 -> parse_string(b, i + 2, Append(acc, 9))
                  [] e = 117 ->
                        IF \E k \in 1..4 : h[k] < 0 THEN Fail
                        ELSE parse_string(b, i + 6, acc \o
                                Utf8(h[1] * 4096 + h[2] * 256 + h[3] * 16 + h[4]))
                  [] OTHER -> Fail
          [] c >= 0 /\ c < 32 -> Fail
          [] OTHER -> parse_string(b, i + 1, Append(acc, c))

Literal(b, i, word) ==
    i + Len(word) - 1 <= Len(b) /\ SubSeq(b, i, i + Len(word) - 1) = word

RECURSIVE parse_value(_, _)
RECURSIVE parse_items(_, _, _)
RECURSIVE parse_entries(_, _, _)

parse_items(b, i, acc) ==
    LET r == parse_value(b, i)
        j == skip_ws(b, r.next)
    IN  IF ~r.ok THEN Fail
        ELSE IF At(b, j) = 44 THEN parse_items(b, j + 1, Append(acc, r.val))
        ELSE IF At(b, j) = 93 THEN Done(JArray(Append(acc, r.val)), j + 1)
        ELSE Fail

parse_entries(b, i, acc) ==
    LET j0 == skip_ws(b, i)
        k == parse_string(b, j0 + 1, <<>>)
        j1 == skip_ws(b, k.next)
        v == parse_value(b, j1 + 1)
        j2 == skip_ws(b, v.next)
    IN  IF At(b, j0) # 34 THEN Fail
        ELSE IF ~k.ok THEN Fail
        ELSE IF At(b, j1) # 58 THEN Fail
        ELSE IF ~v.ok THEN Fail
        ELSE IF At(b, j2) = 44
             THEN parse_entries(b, j2 + 1, insert(acc, k.val.str, v.val))
        ELSE IF At(b, j2) = 125
             THEN Done(JObject(insert(acc, k.val.str, v.val)), j2 + 1)
        ELSE Fail

parse_value(b, i0) ==
    LET i == skip_ws(b, i0)
        c == At(b, i)
        j == skip_ws(b, i + 1)
    IN  CASE c = 110 -> IF Literal(b, i, <<110, 117, 108, 108>>) THEN Done(JNull, i + 4) ELSE Fail
          [] c = 116 ->
                IF Literal(b, i, <<116, 114, 117, 101>>) THEN Done(JBool(TRUE), i + 4) ELSE Fail
          [] c = 102 ->
                IF Literal(b, i, <<102, 97, 108, 115, 101>>) THEN Done(JBool(FALSE), i + 5)
                ELSE Fail
          [] c = 34 -> parse_string(b, i + 1, <<>>)
          [] c = 45 \/ IsDigit(c) -> parse_number(b, i)
          [] c = 91 -> IF At(b, j) = 93 THEN Done(JArray(<<>>), j + 1)
                       ELSE parse_items(b, j, <<>>)
          [] c = 123 -> IF At(b, j) = 125 THEN Done(JObject(new), j + 1)
                        ELSE parse_entries(b, j, new)
          [] OTHER -> Fail

\* json::parse
parse(b) ==
    LET r == parse_value(b, 1) IN
    IF r.ok /\ skip_ws(b, r.next) = Len(b) + 1 THEN Some(r.val) ELSE None

(***************************************************************************)
(* The value trees the generators are given.                               *)
(***************************************************************************)
\* The key of the i-th entry of a generated object; every second key holds a
\* byte that write_string escapes.
ObjKey(i) == IF i % 2 = 1 THEN <<96 + i>> ELSE <<10, 96 + i>>

\* The arrays and objects of at most MaxWidth members: the first or the last
\* of them from sub, the others from sib.
Containers(sub, sib) ==
    LET seqs == {<<>>} \cup UNION {
                    {[i \in 1..k |-> IF i = p THEN t ELSE l[i]] :
                        p \in {1, k}, t \in sub, l \in [1..k -> sib]} : k \in 1..MaxWidth}
    IN  {JArray(s) : s \in seqs} \cup
        {JObject([i \in 1..Len(s) |-> [key |-> ObjKey(i), value |-> s[i]]]) : s \in seqs}

RECURSIVE Trees(_, _, _)
\* The values nested at most d deep.
Trees(d, leaves, sib) ==
    IF d = 0 THEN leaves
    ELSE leaves \cup Containers(Trees(d - 1, leaves, sib), sib)

RECURSIVE HasNaN(_)
HasNaN(v) ==
    CASE v.tag = "Number" -> v.num.nan
      [] v.tag = "Array" -> \E i \in 1..Len(v.items) : HasNaN(v.items[i])
      [] v.tag = "Object" -> \E i \in 1..Len(v.entries) : HasNaN(v.entries[i].value)
      [] OTHER -> FALSE

GenInit(gens) ==
    /\ gen \in gens
    /\ inner = new
    /\ other = new
    /\ pre = <<>>
    /\ op = Call("new", <<>>, JNull)
    /\ ret = Unit
    /\ stdout = <<>>
    /\ stderr = <<>>

(***************************************************************************)
(* Dump and parse: DumpGenerator, Object::dump, json::parse.               *)
(***************************************************************************)
\* The leaves of the trees, and the values dumped only on their own.
DumpLeaves == {JBool(TRUE), JNum(0 - 3), JNaN, JString(<<34, 10, 1, 92, 117>>)}

DumpAlone == {JNull, JBool(FALSE), JNum(12), JShort(<<97>>)}

DumpTrees == DumpAlone \cup Trees(MaxDepth, DumpLeaves, {JString(<<9, 195, 169>>)})

DumpInit == GenInit({DumpGenerator_new(FALSE)})

\* write_json on a new DumpGenerator
DumpJson ==
    \E v \in DumpTrees :
        /\ op.name = "new"
        /\ LET g == write_json(gen, v) IN gen' = g /\ ret' = IoResult(g)
        /\ op' = Call("write_json", <<>>, v)
        /\ UNCHANGED <<inner, other, pre, stdout, stderr>>

\* object.dump()
ObjectDump ==
    \E v \in DumpTrees :
        /\ op.name = "new"
        /\ v.tag = "Object"
        /\ inner' = v.entries
        /\ ret' = dump(v.entries)
        /\ op' = Call("dump", <<>>, v)
        /\ UNCHANGED <<gen, other, pre, stdout, stderr>>

\* json::parse of the text just produced
Parse ==
    /\ op.name \in {"write_json", "dump"}
    /\ ret.kind \in {"Ok", "String"}
    /\ LET text == IF op.name = "dump" THEN ret.val.str ELSE consume(gen) IN
       /\ ret' = parse(text)
       /\ op' = Call("parse", text, op.value)
    /\ UNCHANGED <<inner, other, pre, gen, stdout, stderr>>

DumpNext ==
    \/ DumpJson
    \/ ObjectDump
    \/ Parse

SpecDump == DumpInit /\ [][DumpNext]_vars

(***************************************************************************)
(* Writing to a sink that may fail.                                        *)
(***************************************************************************)
SinkTrees == Trees(MaxDepth, {JString(<<97, 1, 97>>)}, {JNum(7)})

\* The sinks that fail at their f-th write, having accepted none of its bytes
\* or one of them, and the sink that never fails (f = 0).
Sinks == {Sink(f, f % 2) : f \in 0..MaxFail}

SinkGenerators ==
    {DumpGenerator_new(FALSE), PrettyGenerator_new(1, FALSE)}
    \cup {WriterGenerator_new(w, FALSE) : w \in Sinks}
    \cup {PrettyWriterGenerator_new(w, 1, FALSE) : w \in Sinks}

SinkInit == GenInit(SinkGenerators)

WriteJson ==
    \E v \in SinkTrees :
        /\ op.name = "new"
        /\ LET g == write_json(gen, v) IN gen' = g /\ ret' = IoResult(g)
        /\ op' = Call("write_json", <<>>, v)
        /\ UNCHANGED <<inner, other, pre, stdout, stderr>>

WriteObject ==
    \E v \in SinkTrees :
        /\ op.name = "new"
        /\ v.tag = "Object"
        /\ LET g == write_object(gen, v.entries) IN gen' = g /\ ret' = IoResult(g)
        /\ op' = Call("write_object", <<>>, v)
        /\ UNCHANGED <<inner, other, pre, stdout, stderr>>

SinkNext ==
    \/ WriteJson
    \/ WriteObject

SpecSink == SinkInit /\ [][SinkNext]_vars

(***************************************************************************)
(* Pretty printing: PrettyGenerator, PrettyWriterGenerator, Object::pretty.*)
(***************************************************************************)
\* spaces: u16, small ones and one whose multiples leave u16
SpacesSet == {0, 2, 32768}

PrettyTrees == Trees(MaxDepth, {JNum(1)}, {JNum(1)})

PrettyGenerators ==
    {PrettyGenerator_new(n, c) : n \in SpacesSet, c \in BOOLEAN}
    \cup {PrettyWriterGenerator_new(Sink(0, 0), n, c) : n \in SpacesSet, c \in BOOLEAN}

PrettyInit == GenInit(PrettyGenerators)

PrettyJson ==
    \E v \in PrettyTrees :
        /\ op.name = "new"
        /\ LET g == write_json(gen, v) IN gen' = g /\ ret' = IoResult(g)
        /\ op' = Call("write_json", <<>>, v)
        /\ UNCHANGED <<inner, other, pre, stdout, stderr>>

\* object.pretty(spaces)
ObjectPretty ==
    \E v \in PrettyTrees :
        /\ op.name = "new"
        /\ gen.kind = "Pretty"
        /\ v.tag = "Object"
        /\ inner' = v.entries
        /\ gen' = write_object(gen, v.entries)
        /\ ret' = pretty(v.entries, gen.spaces_per_indent, gen.overflow_checks)
        /\ op' = Call("pretty", <<>>, v)
        /\ UNCHANGED <<other, pre, stdout, stderr>>

PrettyNext ==
    \/ PrettyJson
    \/ ObjectPretty

SpecPretty == PrettyInit /\ [][PrettyNext]_vars

(***************************************************************************)
(* Calls one after another on one pretty generator.                        *)
(***************************************************************************)
\* The value trees with at most one member at the top.
DentTrees ==
    {v \in PrettyTrees : Len(v.items) <= 1 /\ Len(v.entries) <= 1}

DentGenerators ==
    {PrettyGenerator_new(1, c) : c \in BOOLEAN}
    \cup {PrettyWriterGenerator_new(Sink(f, 0), 1, c) : f \in 0..MaxFail, c \in BOOLEAN}

DentInit == GenInit(DentGenerators)

\* write_json on the generator as the calls before left it; pre keeps the
\* generator as it was when each call began.
DentWriteJson ==
    \E v \in DentTrees :
        /\ Len(pre) < MaxCalls
        /\ gen.res # "Panic"
        /\ LET g == write_json(gen, v) IN gen' = g /\ ret' = IoResult(g)
        /\ pre' = Append(pre, gen)
        /\ op' = Call("write_json", <<>>, v)
        /\ UNCHANGED <<inner, other, stdout, stderr>>

DentWriteObject ==
    \E v \in DentTrees :
        /\ Len(pre) < MaxCalls
        /\ gen.res # "Panic"
        /\ v.tag = "Object"
        /\ LET g == write_object(gen, v.entries) IN gen' = g /\ ret' = IoResult(g)
        /\ pre' = Append(pre, gen)
        /\ op' = Call("write_object", <<>>, v)
        /\ UNCHANGED <<inner, other, stdout, stderr>>

DentNext ==
    \/ DentWriteJson
    \/ DentWriteObject

SpecDent == DentInit /\ [][DentNext]_vars

(***************************************************************************)
(* What the claims say of a map, stated on the entries themselves.         *)
(***************************************************************************)
HasKey(m, k) == \E i \in 1..Len(m) : m[i].key = k

PosOf(m, k) == CHOOSE i \in 1..Len(m) : m[i].key = k

KeySeq(m) == [i \in 1..Len(m) |-> m[i].key]

KeySet(m) == {m[i].key : i \in 1..Len(m)}

ValueAt(m, k) == m[PosOf(m, k)].value

Without(m, k) == SelectSeq(m, LAMBDA e : e.key # k)

\* C2: insert(k, v) on a present key changes only the value under k (len and
\* the key order stay); on an absent key it appends (k, v) as the last entry
\* and leaves the earlier entries as they were.
C2_InsertInPlaceOrAppend ==
    op.name = "insert" =>
        IF HasKey(pre, op.key)
        THEN /\ len(inner) = len(pre)
             /\ KeySeq(iter(inner)) = KeySeq(iter(pre))
             /\ \A i \in 1..Len(pre) :
                   inner[i].value = IF pre[i].key = op.key THEN op.value ELSE pre[i].value
        ELSE /\ len(inner) = len(pre) + 1
             /\ inner[Len(inner)] = [key |-> op.key, value |-> op.value]
             /\ \A i \in 1..Len(pre) : inner[i] = pre[i]

\* insert has overwritten, with another value, a key that was not the last.
C2_Witness ==
    /\ op.name = "insert"
    /\ \E i \in 1..(Len(pre) - 1) : pre[i].key = op.key /\ pre[i].value # op.value

\* C3: shift_remove(k) of a present key returns the value under k and leaves
\* the other entries, with their values, in the order they had.
C3_ShiftRemoveKeepsOrder ==
    (op.name = "shift_remove" /\ HasKey(pre, op.key)) =>
        /\ ret = Some(ValueAt(pre, op.key))
        /\ iter(inner) = Without(pre, op.key)

\* shift_remove has removed the first of three entries.
C3_Witness ==
    /\ op.name = "shift_remove"
    /\ Len(pre) >= 3
    /\ pre[1].key = op.key

\* C4: remove(k) of the key at position i returns its value; len is one less,
\* the entry that was last sits at i (when k was not last), and every other
\* entry keeps its position and value.
C4_RemoveSwapsWithLast ==
    (op.name = "remove" /\ HasKey(pre, op.key)) =>
        LET i == PosOf(pre, op.key) IN
        /\ ret = Some(pre[i].value)
        /\ len(inner) = len(pre) - 1
        /\ i < Len(pre) => inner[i] = pre[Len(pre)]
        /\ \A j \in 1..(Len(pre) - 1) : j # i => inner[j] = pre[j]

\* remove has removed the first of three entries.
C4_Witness ==
    /\ op.name = "remove"
    /\ Len(pre) >= 3
    /\ pre[1].key = op.key

\* C5: A == B holds exactly when A and B have the same keys and every key maps
\* to equal values in both, whatever the order; so B == A gives the same answer.
C5_EqIgnoresOrder ==
    LET same == /\ KeySet(inner) = KeySet(other)
                /\ \A k \in KeySet(inner) :
                      value_eq(ValueAt(inner, k), ValueAt(other, k))
    IN  op.name \in {"eq", "eq_rev"} => (ret = Bool(same))

\* Two Objects with the same three pairs in different orders compared equal.
C5_Witness ==
    /\ op.name = "eq"
    /\ Len(inner) >= 3
    /\ KeySeq(inner) # KeySeq(other)
    /\ ret = Bool(TRUE)

\* C6: object[k] for writing hands out the entry for k: an absent k is first
\* appended with null (so object[k] = v creates (k, v) at the end), a present
\* k adds nothing and keeps its position and, until assigned, its value.
\* object[k] for reading returns the value or null and changes nothing.
C6_IndexMutInsertsNull ==
    /\ op.name = "index_mut" =>
          IF HasKey(pre, op.key)
          THEN inner = pre /\ ret = Ref(ValueAt(pre, op.key))
          ELSE inner = Append(pre, [key |-> op.key, value |-> JNull]) /\ ret = Ref(JNull)
    /\ op.name = "index_assign" =>
          IF HasKey(pre, op.key)
          THEN /\ KeySeq(inner) = KeySeq(pre)
               /\ \A i \in 1..Len(pre) :
                     inner[i].value = IF pre[i].key = op.key THEN op.value ELSE pre[i].value
          ELSE inner = Append(pre, [key |-> op.key, value |-> op.value])
    /\ op.name = "index" =>
          /\ inner = pre
          /\ ret = Ref(IF HasKey(pre, op.key) THEN ValueAt(pre, op.key) ELSE JNull)

\* &mut object[k] was taken for a present k that holds a value other than null.
C6_Witness ==
    /\ op.name = "index_mut"
    /\ Len(pre) >= 2
    /\ HasKey(pre, op.key)
    /\ ValueAt(pre, op.key) # JNull

\* C10: in every reachable state no two entries share a key, len() is the
\* number of entries iter() yields, is_empty() holds exactly when len() is 0,
\* get(k) returns the value of the one entry with key k or nothing, and clear
\* leaves len() = 0.
C10_UniqueKeys ==
    /\ \A i, j \in 1..Len(inner) : inner[i].key = inner[j].key => i = j
    /\ len(inner) = Cardinality(KeySet(iter(inner)))
    /\ is_empty(inner) <=> (len(inner) = 0)
    /\ \A k \in Keys :
          get(inner, k) = IF HasKey(inner, k) THEN Some(ValueAt(inner, k)) ELSE None
    /\ op.name = "len" => ret = Usize(Cardinality(KeySet(pre)))
    /\ op.name = "is_empty" => ret = Bool(KeySet(pre) = {})
    /\ op.name = "get" =>
          ret = IF HasKey(pre, op.key) THEN Some(ValueAt(pre, op.key)) ELSE None
    /\ op.name = "clear" => len(inner) = 0

\* insert has overwritten a key of a full map, after an earlier removal.
C10_Witness ==
    /\ op.name = "insert"
    /\ Len(pre) >= 3
    /\ HasKey(pre, op.key)
    /\ stdout # <<>>

(***************************************************************************)
(* What the claims say of the generator's output.                          *)
(***************************************************************************)
HexDigit(d) == <<48, 49, 50, 51, 52, 53, 54, 55, 56, 57, 97, 98, 99, 100, 101, 102>>[d + 1]

\* The image of byte b in a JSON string, by the escaping rules.
Image(b) ==
    CASE b = 34 -> <<92, 34>>
      [] b = 92 -> <<92, 92>>
      [] b = 8 -> <<92, 98>>
      [] b = 9 -> <<92, 116>>
      [] b = 10 -> <<92, 110>>
      [] b = 12 -> <<92, 102>>
      [] b = 13 -> <<92, 114>>
      [] b < 32 /\ b \notin {8, 9, 10, 12, 13} ->
            <<92, 117, 48, 48, HexDigit(b \div 16), HexDigit(b % 16)>>
      [] OTHER -> <<b>>

RECURSIVE Images(_)
Images(s) == IF s = <<>> THEN <<>> ELSE Image(Head(s)) \o Images(Tail(s))

\* C1: write_string emits one '"', the image of every byte of the string in
\* order, and one '"': nothing else, on either path and on every generator.
C1_WriteStringEscapes ==
    op.name = "write_string" =>
        /\ Output(gen) = <<34>> \o Images(op.key) \o <<34>>
        /\ gen.res = "Ok"

\* A string was written whose first escapable byte, a control byte with no
\* short escape, follows a plain byte and is followed by one.
C1_Witness ==
    /\ op.name = "write_string"
    /\ Len(op.key) >= 3
    /\ op.key[1] = 97
    /\ op.key[2] = 31
    /\ op.key[3] = 97
    /\ gen.kind = "Writer"

(***************************************************************************)
(* What the claims say of value trees.                                     *)
(***************************************************************************)
IsPrefix(s, t) == Len(s) <= Len(t) /\ SubSeq(t, 1, Len(s)) = s

IsContainer(v) == v.tag \in {"Array", "Object"}

\* The members of a container, in iteration order.
Members(v) ==
    IF v.tag = "Array" THEN v.items
    ELSE [i \in 1..Len(v.entries) |-> v.entries[i].value]

\* The compact text of a value, written by a generator with nothing to fail.
CompactText(v) == consume(write_json(DumpGenerator_new(FALSE), v))

\* A line feed and n * depth spaces.
Line(n, depth) == <<10>> \o [i \in 1..(n * depth) |-> 32]

RECURSIVE PrettyText(_, _, _)
RECURSIVE PrettyMembers(_, _, _, _)

\* The members of v from the i-th on, each on a line of its own at depth.
PrettyMembers(v, n, depth, i) ==
    IF i > Len(Members(v)) THEN <<>>
    ELSE (IF i > 1 THEN <<44>> ELSE <<>>)
         \o Line(n, depth)
         \o (IF v.tag = "Object"
             THEN <<34>> \o Images(v.entries[i].key) \o <<34, 58, 32>> ELSE <<>>)
         \o PrettyText(Members(v)[i], n, depth)
         \o PrettyMembers(v, n, depth, i + 1)

\* The pretty text of v, opened on a line at depth, as the claim words it.
PrettyText(v, n, depth) ==
    LET open == IF v.tag = "Array" THEN <<91>> ELSE <<123>>
        close == IF v.tag = "Array" THEN <<93>> ELSE <<125>>
    IN  IF ~IsContainer(v) THEN CompactText(v)
        ELSE IF Len(Members(v)) = 0 THEN open \o close
        ELSE open \o PrettyMembers(v, n, depth + 1, 1) \o Line(n, depth) \o close

\* C7: in pretty mode the generator starts every line of a container with a
\* line feed and exactly N * depth spaces, for every N of 16 bits and every
\* depth, also when N * depth does not fit in 16 bits.
C7_IndentIsExactProduct ==
    /\ op.name = "write_json" =>
            /\ gen.res = "Ok"
            /\ Output(gen) = PrettyText(op.value, gen.spaces_per_indent, 0)
    /\ op.name = "pretty" =>
            /\ ret.kind = "String"
            /\ ret.val.str = PrettyText(op.value, gen.spaces_per_indent, 0)

RECURSIVE SameOrder(_, _)
\* The members of b are those of a, in a's order, all the way down.
SameOrder(a, b) ==
    IF ~IsContainer(a) THEN TRUE
    ELSE /\ b.tag = a.tag
         /\ Len(Members(b)) = Len(Members(a))
         /\ a.tag = "Object" =>
                \A i \in 1..Len(a.entries) : b.entries[i].key = a.entries[i].key
         /\ \A i \in 1..Len(Members(a)) : SameOrder(Members(a)[i], Members(b)[i])

\* C8: parsing the compact dump of a value tree with no NaN in it gives a
\* value equal to the tree, its strings byte for byte and the members of its
\* arrays and objects once each in iteration order.
C8_RoundTrip ==
    (op.name = "parse" /\ ~HasNaN(op.value)) =>
        /\ ret.kind = "Some"
        /\ value_eq(ret.val, op.value)
        /\ value_eq(op.value, ret.val)
        /\ SameOrder(op.value, ret.val)

\* The dump of an object two deep was parsed: its second key needs an escape
\* and a string nested in it needs every kind of escape.
C8_Witness ==
    /\ op.name = "parse"
    /\ ret.kind = "Some"
    /\ op.value.tag = "Object"
    /\ Len(op.value.entries) = 2
    /\ op.value.entries[2].key = <<10, 98>>
    /\ op.value.entries[1].value.tag = "Array"
    /\ Len(op.value.entries[1].value.items) = 2
    /\ op.value.entries[1].value.items[2] = JString(<<34, 10, 1, 92, 117>>)
    /\ ~HasNaN(op.value)

\* The generator of the same kind and indentation that has written nothing
\* and whose sink never fails.
Unfailing(g) ==
    [g EXCEPT !.code = <<>>, !.sink = Sink(0, 0), !.dent = 0, !.res = "Ok", !.error = 0]

\* The generator after the whole of the value is written, nothing failing.
Full(g, v) == write_json(Unfailing(g), v)

\* C9: on a sink-backed generator the sink's first failing write ends the
\* generation: that error is returned, the sink gets no write after it, and
\* what the sink accepted is a prefix of the full output; without a failing
\* write the full output is written; an owned buffer never gives an error.
C9_SinkFailureAborts ==
    op.name \in {"write_json", "write_object"} =>
        LET full == Full(gen, op.value) IN
        IF Owned(gen) THEN gen.res = "Ok" /\ Output(gen) = Output(full)
        ELSE IF gen.sink.fail_at \in 1..full.sink.writes
        THEN /\ gen.res = "Err"
             /\ gen.error = gen.sink.fail_at
             /\ gen.sink.writes = gen.sink.fail_at
             /\ IsPrefix(gen.sink.bytes, Output(full))
             /\ gen.sink.bytes # Output(full)
        ELSE /\ gen.res = "Ok"
             /\ gen.sink.writes = full.sink.writes
             /\ gen.sink.bytes = Output(full)

\* A pretty writer's sink failed in the loop of spaces of a line two deep,
\* after the line feed and one space.
C9_Witness ==
    /\ op.name = "write_json"
    /\ gen.kind = "PrettyWriter"
    /\ gen.res = "Err"
    /\ gen.dent = 2
    /\ Len(gen.sink.bytes) >= 2
    /\ gen.sink.bytes[Len(gen.sink.bytes)] = 32
    /\ gen.sink.bytes[Len(gen.sink.bytes) - 1] = 10
    /\ Output(Full(gen, op.value))[Len(gen.sink.bytes) + 1] = 32

\* C11: on the pretty generators indent and dedent come in matching pairs:
\* the depth is never taken below zero, and when a write_json or write_object
\* call returns, with success or with a sink error, the depth is what it was
\* when the call began.
C11_DentInMatchingPairs ==
    op.name \in {"write_json", "write_object"} =>
        /\ gen.res # "Panic"
        /\ gen.dent = pre[Len(pre)].dent

\* C12: the operations of Object write nothing to the standard output or
\* the standard error of the process.
C12_NoOutputStreams == stdout = <<>> /\ stderr = <<>>

====
